---------------------------- MODULE Spec2Model ----------------------------
(***************************************************************************)
(* The convertToUtf8 callable of functions/index.js (the compiled handler, *)
(* lines 288-432): request validation, output naming, base64 decoding,     *)
(* encoding auto-detection by heuristic scoring, the final decode and the  *)
(* error path.  One request is followed from receipt to its outcome.       *)
(*                                                                         *)
(* Strings the code takes apart (file names, base64 text) are tuples of    *)
(* one-character strings; decoded text is a tuple of UTF-16 code units;    *)
(* buffers are tuples of bytes.  Encoding names are atomic strings.        *)
(***************************************************************************)
EXTENDS Integers, Sequences, FiniteSets, TLC

VARIABLES
  pc,                \* position of the handler: idle, validate, loop, decode, catch, done
  request,           \* request.data: fileName, fileContent, sourceEncoding
  iconvHasUtf32,     \* the installed codec library knows the UTF-32 codecs
  convertedFileName, \* const convertedFileName (line 312)
  buffer,            \* const buffer (line 314)
  detectedEncoding,  \* let detectedEncoding (line 316)
  best,              \* <<>> until lines 334-335 run, then <<[encoding, score]>>
  idx,               \* position of the for-of loop in encodingsToTry (line 336)
  attempts,          \* one entry per loop iteration: the debug log line or the skip
  thrown,            \* <<>> or <<the error caught at line 419>>
  response,          \* <<>> or <<the outcome of the call>>
  file,              \* the page's state file (App, line 16): <<>> for null, or <<File>>
  isConverting,      \* the page's state isConverting (line 17)
  result,            \* the page's state result (line 18): <<>> for null, or <<result>>
  uiError,           \* the page's state error (line 19): "" for null, or the message
  isDragOver,        \* the page's state isDragOver (line 20)
  call,              \* <<>> or <<the convertFile invocation that is suspended at an await>>
  downloaded         \* <<>> or <<the last download: its name, the file selected then>>

\* the callable's state
serverVars == <<pc, request, iconvHasUtf32, convertedFileName, buffer, detectedEncoding,
                best, idx, attempts, thrown, response>>

\* the page's state
clientVars == <<file, isConverting, result, uiError, isDragOver, call, downloaded>>

vars == <<serverVars, clientVars>>

-----------------------------------------------------------------------------
(* Bounds of the explored input space.                                     *)

\* longest free base64 text (fileContent) drawn from ContentChars
MaxContentLen == 4
\* longest free file-name stem drawn from StemChars
MaxStemLen == 3

-----------------------------------------------------------------------------
(* Generic helpers on tuples.                                              *)

Min(a, b) == IF a < b THEN a ELSE b

SeqsUpTo(S, n) == UNION {[1..k -> S] : k \in 0..n}

RECURSIVE Rep(_, _)
Rep(s, n) == IF n = 0 THEN <<>> ELSE s \o Rep(s, n - 1)

\* number of positions of s whose element is in set S
CountIn(s, S) == Cardinality({i \in 1..Len(s) : s[i] \in S})

\* s.endsWith(suffix)
EndsWith(s, suffix) ==
  /\ Len(s) >= Len(suffix)
  /\ SubSeq(s, Len(s) - Len(suffix) + 1, Len(s)) = suffix

\* s.includes(t)
Includes(s, t) ==
  \E i \in 0..(Len(s) - Len(t)) : SubSeq(s, i + 1, i + Len(t)) = t

\* index of c in tuple t, 0 when absent
IndexOf(t, c) ==
  IF \E i \in 1..Len(t) : t[i] = c
  THEN CHOOSE i \in 1..Len(t) : t[i] = c
  ELSE 0

-----------------------------------------------------------------------------
(* Characters.                                                             *)

UpperLetters == <<"A","B","C","D","E","F","G","H","I","J","K","L","M",
                  "N","O","P","Q","R","S","T","U","V","W","X","Y","Z">>

\* code unit of an upper-case ASCII letter
Ord(c) == 64 + IndexOf(UpperLetters, c)

Codes(s) == [i \in 1..Len(s) |-> Ord(s[i])]

\* U+FFFD, the character /�/g counts
ReplacementChar == 65533

\* U+FEFF, the byte-order mark the codec strips from the head of decoded text
BomChar == 65279

-----------------------------------------------------------------------------
(* Buffer.from(fileContent, 'base64') (line 314).  Characters outside the  *)
(* alphabet (padding included) carry no bits; every four sextets give      *)
(* three bytes, a tail of three gives two, of two gives one, of one none.  *)

Base64Alphabet ==
  <<"A","B","C","D","E","F","G","H","I","J","K","L","M","N","O","P",
    "Q","R","S","T","U","V","W","X","Y","Z","a","b","c","d","e","f",
    "g","h","i","j","k","l","m","n","o","p","q","r","s","t","u","v",
    "w","x","y","z","0","1","2","3","4","5","6","7","8","9","+","/">>

Sextet(c) ==
  IF c = "-" THEN 62
  ELSE IF c = "_" THEN 63
  ELSE IndexOf(Base64Alphabet, c) - 1

IsBase64Char(c) == Sextet(c) >= 0

Sextets(s) ==
  LET keep == SelectSeq(s, IsBase64Char)
  IN  [i \in 1..Len(keep) |-> Sextet(keep[i])]

RECURSIVE BytesOfSextets(_)
BytesOfSextets(x) ==
  IF Len(x) < 2 THEN <<>>
  ELSE LET b1 == x[1] * 4 + (x[2] \div 16)
       IN IF Len(x) = 2 THEN <<b1>>
          ELSE LET b2 == (x[2] % 16) * 16 + (x[3] \div 4)
               IN IF Len(x) = 3 THEN <<b1, b2>>
                  ELSE LET b3 == (x[3] % 4) * 64 + x[4]
                       IN <<b1, b2, b3>> \o BytesOfSextets(SubSeq(x, 5, Len(x)))

Base64Decode(s) == BytesOfSextets(Sextets(s))

(* utf8Buffer.toString('base64') (line 402): three bytes give four         *)
(* characters, a tail is padded with "=".                                  *)
RECURSIVE Base64Encode(_)
Base64Encode(b) ==
  IF Len(b) = 0 THEN <<>>
  ELSE LET c1 == Base64Alphabet[(b[1] \div 4) + 1]
       IN IF Len(b) = 1
          THEN <<c1, Base64Alphabet[((b[1] % 4) * 16) + 1], "=", "=">>
          ELSE LET c2 == Base64Alphabet[((b[1] % 4) * 16 + (b[2] \div 16)) + 1]
               IN IF Len(b) = 2
                  THEN <<c1, c2, Base64Alphabet[((b[2] % 16) * 4) + 1], "=">>
                  ELSE <<c1, c2,
                         Base64Alphabet[((b[2] % 16) * 4 + (b[3] \div 64)) + 1],
                         Base64Alphabet[(b[3] % 64) + 1]>>
                       \o Base64Encode(SubSeq(b, 4, Len(b)))

-----------------------------------------------------------------------------
(* path.parse(fileName) (line 311), POSIX flavour: the base is what        *)
(* follows the last "/"; the extension starts at the last "." of the base  *)
(* unless that dot is the first character of the base (or the base is      *)
(* "..").                                                                  *)

LastIndexOf(s, c) ==
  IF \E i \in 1..Len(s) : s[i] = c
  THEN CHOOSE i \in 1..Len(s) : s[i] = c /\ \A j \in (i + 1)..Len(s) : s[j] # c
  ELSE 0

\* the path without trailing separators (a path of separators only is the root)
TrimSlashes(p) ==
  LET last == IF \E i \in 1..Len(p) : p[i] # "/"
              THEN CHOOSE i \in 1..Len(p) : p[i] # "/" /\ \A j \in (i + 1)..Len(p) : p[j] = "/"
              ELSE 0
  IN SubSeq(p, 1, last)

PathBase(p) ==
  LET t == TrimSlashes(p)
  IN  SubSeq(t, LastIndexOf(t, "/") + 1, Len(t))

\* PathParse taking the extension from the first dot of the base
PathParseFirstDot(p) ==
  LET base == PathBase(p)
      dot  == IndexOf(base, ".")
  IN IF dot <= 1
     THEN [name |-> base, ext |-> <<>>]
     ELSE [name |-> SubSeq(base, 1, dot - 1), ext |-> SubSeq(base, dot, Len(base))]

PathParse(p) ==
  LET base == PathBase(p)
      dot  == LastIndexOf(base, ".")
      noExt == \/ dot = 0
               \/ dot = 1
               \/ base = <<".", ".">>
  IN IF noExt
     THEN [name |-> base, ext |-> <<>>]
     ELSE [name |-> SubSeq(base, 1, dot - 1), ext |-> SubSeq(base, dot, Len(base))]

Utf8Suffix == <<"-", "u", "t", "f", "8">>

\* `${parsedPath.name}-utf8${parsedPath.ext}` (line 312)
OutputName(fileName) ==
  LET parsedPath == PathParse(fileName)
  IN  parsedPath.name \o Utf8Suffix \o parsedPath.ext

-----------------------------------------------------------------------------
(* The codec layer behind iconv.decode(buffer, encoding) (lines 338, 399). *)
(* A name the library does not recognise makes decode throw; a recognised  *)
(* one never throws: bytes with no meaning decode to U+FFFD.  Names are    *)
(* resolved to a codec by alias.                                           *)

\* the ordered candidate catalog (lines 319-333)
encodingsToTry ==
  << "utf8", "utf-8",
     "windows-1251", "cp1251",
     "windows-1252", "cp1252",
     "iso-8859-1", "latin1",
     "iso-8859-2", "latin2",
     "iso-8859-5", "cyrillic",
     "koi8-r", "koi8-u",
     "cp866", "ibm866",
     "cp850", "ibm850",
     "macintosh", "mac",
     "utf-16le", "utf-16be",
     "utf-32le", "utf-32be",
     "ascii" >>

\* the codec an encoding name resolves to ("none": not a name of the library)
CodecOf(encoding) ==
  CASE encoding \in {"utf8", "utf-8"}            -> "utf8"
    [] encoding \in {"windows-1251", "cp1251"}   -> "windows1251"
    [] encoding \in {"windows-1252", "cp1252"}   -> "windows1252"
    [] encoding \in {"iso-8859-1", "latin1"}     -> "iso88591"
    [] encoding \in {"iso-8859-2", "latin2"}     -> "iso88592"
    [] encoding \in {"iso-8859-5", "cyrillic"}   -> "iso88595"
    [] encoding = "koi8-r"                       -> "koi8r"
    [] encoding = "koi8-u"                       -> "koi8u"
    [] encoding \in {"cp866", "ibm866"}          -> "cp866"
    [] encoding \in {"cp850", "ibm850"}          -> "cp850"
    [] encoding \in {"macintosh", "mac"}         -> "macintosh"
    [] encoding = "utf-16le"                     -> "utf16le"
    [] encoding = "utf-16be"                     -> "utf16be"
    [] encoding = "utf-32le"                     -> "utf32le"
    [] encoding = "utf-32be"                     -> "utf32be"
    [] encoding = "ascii"                        -> "ascii"
    [] OTHER                                     -> "none"

\* iconv.decode throws "Encoding not recognized" for this name
DecodeThrows(encoding, hasUtf32) ==
  \/ CodecOf(encoding) = "none"
  \/ CodecOf(encoding) \in {"utf32le", "utf32be"} /\ ~hasUtf32

(* Upper half (bytes 128..255) of the cp1251 table; 65533 marks an undefined byte. *)
Windows1251High ==
  <<
     1026, 1027, 8218, 1107, 8222, 8230, 8224, 8225, 8364, 8240, 1033, 8249, 1034, 1036, 1035, 1039,
     1106, 8216, 8217, 8220, 8221, 8226, 8211, 8212, 65533, 8482, 1113, 8250, 1114, 1116, 1115, 1119,
     160, 1038, 1118, 1032, 164, 1168, 166, 167, 1025, 169, 1028, 171, 172, 173, 174, 1031,
     176, 177, 1030, 1110, 1169, 181, 182, 183, 1105, 8470, 1108, 187, 1112, 1029, 1109, 1111,
     1040, 1041, 1042, 1043, 1044, 1045, 1046, 1047, 1048, 1049, 1050, 1051, 1052, 1053, 1054, 1055,
     1056, 1057, 1058, 1059, 1060, 1061, 1062, 1063, 1064, 1065, 1066, 1067, 1068, 1069, 1070, 1071,
     1072, 1073, 1074, 1075, 1076, 1077, 1078, 1079, 1080, 1081, 1082, 1083, 1084, 1085, 1086, 1087,
     1088, 1089, 1090, 1091, 1092, 1093, 1094, 1095, 1096, 1097, 1098, 1099, 1100, 1101, 1102, 1103
  >>

(* Upper half (bytes 128..255) of the cp1252 table; 65533 marks an undefined byte. *)
Windows1252High ==
  <<
     8364, 65533, 8218, 402, 8222, 8230, 8224, 8225, 710, 8240, 352, 8249, 338, 65533, 381, 65533,
     65533, 8216, 8217, 8220, 8221, 8226, 8211, 8212, 732, 8482, 353, 8250, 339, 65533, 382, 376,
     160, 161, 162, 163, 164, 165, 166, 167, 168, 169, 170, 171, 172, 173, 174, 175,
     176, 177, 178, 179, 180, 181, 182, 183, 184, 185, 186, 187, 188, 189, 190, 191,
     192, 193, 194, 195, 196, 197, 198, 199, 200, 201, 202, 203, 204, 205, 206, 207,
     208, 209, 210, 211, 212, 213, 214, 215, 216, 217, 218, 219, 220, 221, 222, 223,
     224, 225, 226, 227, 228, 229, 230, 231, 232, 233, 234, 235, 236, 237, 238, 239,
     240, 241, 242, 243, 244, 245, 246, 247, 248, 249, 250, 251, 252, 253, 254, 255
  >>

(* Upper half (bytes 128..255) of the iso8859_2 table; 65533 marks an undefined byte. *)
Iso88592High ==
  <<
     128, 129, 130, 131, 132, 133, 134, 135, 136, 137, 138, 139, 140, 141, 142, 143,
     144, 145, 146, 147, 148, 149, 150, 151, 152, 153, 154, 155, 156, 157, 158, 159,
     160, 260, 728, 321, 164, 317, 346, 167, 168, 352, 350, 356, 377, 173, 381, 379,
     176, 261, 731, 322, 180, 318, 347, 711, 184, 353, 351, 357, 378, 733, 382, 380,
     340, 193, 194, 258, 196, 313, 262, 199, 268, 201, 280, 203, 282, 205, 206, 270,
     272, 323, 327, 211, 212, 336, 214, 215, 344, 366, 218, 368, 220, 221, 354, 223,
     341, 225, 226, 259, 228, 314, 263, 231, 269, 233, 281, 235, 283, 237, 238, 271,
     273, 324, 328, 243, 244, 337, 246, 247, 345, 367, 250, 369, 252, 253, 355, 729
  >>

(* Upper half (bytes 128..255) of the iso8859_5 table; 65533 marks an undefined byte. *)
Iso88595High ==
  <<
     128, 129, 130, 131, 132, 133, 134, 135, 136, 137, 138, 139, 140, 141, 142, 143,
     144, 145, 146, 147, 148, 149, 150, 151, 152, 153, 154, 155, 156, 157, 158, 159,
     160, 1025, 1026, 1027, 1028, 1029, 1030, 1031, 1032, 1033, 1034, 1035, 1036, 173, 1038, 1039,
     1040, 1041, 1042, 1043, 1044, 1045, 1046, 1047, 1048, 1049, 1050, 1051, 1052, 1053, 1054, 1055,
     1056, 1057, 1058, 1059, 1060, 1061, 1062, 1063, 1064, 1065, 1066, 1067, 1068, 1069, 1070, 1071,
     1072, 1073, 1074, 1075, 1076, 1077, 1078, 1079, 1080, 1081, 1082, 1083, 1084, 1085, 1086, 1087,
     1088, 1089, 1090, 1091, 1092, 1093, 1094, 1095, 1096, 1097, 1098, 1099, 1100, 1101, 1102, 1103,
     8470, 1105, 1106, 1107, 1108, 1109, 1110, 1111, 1112, 1113, 1114, 1115, 1116, 167, 1118, 1119
  >>

(* Upper half (bytes 128..255) of the koi8_r table; 65533 marks an undefined byte. *)
Koi8RHigh ==
  <<
     9472, 9474, 9484, 9488, 9492, 9496, 9500, 9508, 9516, 9524, 9532, 9600, 9604, 9608, 9612, 9616,
     9617, 9618, 9619, 8992, 9632, 8729, 8730, 8776, 8804, 8805, 160, 8993, 176, 178, 183, 247,
     9552, 9553, 9554, 1105, 9555, 9556, 9557, 9558, 9559, 9560, 9561, 9562, 9563, 9564, 9565, 9566,
     9567, 9568, 9569, 1025, 9570, 9571, 9572, 9573, 9574, 9575, 9576, 9577, 9578, 9579, 9580, 169,
     1102, 1072, 1073, 1094, 1076, 1077, 1092, 1075, 1093, 1080, 1081, 1082, 1083, 1084, 1085, 1086,
     1087, 1103, 1088, 1089, 1090, 1091, 1078, 1074, 1100, 1099, 1079, 1096, 1101, 1097, 1095, 1098,
     1070, 1040, 1041, 1062, 1044, 1045, 1060, 1043, 1061, 1048, 1049, 1050, 1051, 1052, 1053, 1054,
     1055, 1071, 1056, 1057, 1058, 1059, 1046, 1042, 1068, 1067, 1047, 1064, 1069, 1065, 1063, 1066
  >>

(* Upper half (bytes 128..255) of the koi8_u table; 65533 marks an undefined byte. *)
Koi8UHigh ==
  <<
     9472, 9474, 9484, 9488, 9492, 9496, 9500, 9508, 9516, 9524, 9532, 9600, 9604, 9608, 9612, 9616,
     9617, 9618, 9619, 8992, 9632, 8729, 8730, 8776, 8804, 8805, 160, 8993, 176, 178, 183, 247,
     9552, 9553, 9554, 1105, 1108, 9556, 1110, 1111, 9559, 9560, 9561, 9562, 9563, 1169, 9565, 9566,
     9567, 9568, 9569, 1025, 1028, 9571, 1030, 1031, 9574, 9575, 9576, 9577, 9578, 1168, 9580, 169,
     1102, 1072, 1073, 1094, 1076, 1077, 1092, 1075, 1093, 1080, 1081, 1082, 1083, 1084, 1085, 1086,
     1087, 1103, 1088, 1089, 1090, 1091, 1078, 1074, 1100, 1099, 1079, 1096, 1101, 1097, 1095, 1098,
     1070, 1040, 1041, 1062, 1044, 1045, 1060, 1043, 1061, 1048, 1049, 1050, 1051, 1052, 1053, 1054,
     1055, 1071, 1056, 1057, 1058, 1059, 1046, 1042, 1068, 1067, 1047, 1064, 1069, 1065, 1063, 1066
  >>

(* Upper half (bytes 128..255) of the cp866 table; 65533 marks an undefined byte. *)
Cp866High ==
  <<
     1040, 1041, 1042, 1043, 1044, 1045, 1046, 1047, 1048, 1049, 1050, 1051, 1052, 1053, 1054, 1055,
     1056, 1057, 1058, 1059, 1060, 1061, 1062, 1063, 1064, 1065, 1066, 1067, 1068, 1069, 1070, 1071,
     1072, 1073, 1074, 1075, 1076, 1077, 1078, 1079, 1080, 1081, 1082, 1083, 1084, 1085, 1086, 1087,
     9617, 9618, 9619, 9474, 9508, 9569, 9570, 9558, 9557, 9571, 9553, 9559, 9565, 9564, 9563, 9488,
     9492, 9524, 9516, 9500, 9472, 9532, 9566, 9567, 9562, 9556, 9577, 9574, 9568, 9552, 9580, 9575,
     9576, 9572, 9573, 9561, 9560, 9554, 9555, 9579, 9578, 9496, 9484, 9608, 9604, 9612, 9616, 9600,
     1088, 1089, 1090, 1091, 1092, 1093, 1094, 1095, 1096, 1097, 1098, 1099, 1100, 1101, 1102, 1103,
     1025, 1105, 1028, 1108, 1031, 1111, 1038, 1118, 176, 8729, 183, 8730, 8470, 164, 9632, 160
  >>

(* Upper half (bytes 128..255) of the cp850 table; 65533 marks an undefined byte. *)
Cp850High ==
  <<
     199, 252, 233, 226, 228, 224, 229, 231, 234, 235, 232, 239, 238, 236, 196, 197,
     201, 230, 198, 244, 246, 242, 251, 249, 255, 214, 220, 248, 163, 216, 215, 402,
     225, 237, 243, 250, 241, 209, 170, 186, 191, 174, 172, 189, 188, 161, 171, 187,
     9617, 9618, 9619, 9474, 9508, 193, 194, 192, 169, 9571, 9553, 9559, 9565, 162, 165, 9488,
     9492, 9524, 9516, 9500, 9472, 9532, 227, 195, 9562, 9556, 9577, 9574, 9568, 9552, 9580, 164,
     240, 208, 202, 203, 200, 305, 205, 206, 207, 9496, 9484, 9608, 9604, 166, 204, 9600,
     211, 223, 212, 210, 245, 213, 181, 254, 222, 218, 219, 217, 253, 221, 175, 180,
     173, 177, 8215, 190, 182, 167, 247, 184, 176, 168, 183, 185, 179, 178, 9632, 160
  >>

(* Upper half (bytes 128..255) of the mac_roman table; 65533 marks an undefined byte. *)
MacintoshHigh ==
  <<
     196, 197, 199, 201, 209, 214, 220, 225, 224, 226, 228, 227, 229, 231, 233, 232,
     234, 235, 237, 236, 238, 239, 241, 243, 242, 244, 246, 245, 250, 249, 251, 252,
     8224, 176, 162, 163, 167, 8226, 182, 223, 174, 169, 8482, 180, 168, 8800, 198, 216,
     8734, 177, 8804, 8805, 165, 181, 8706, 8721, 8719, 960, 8747, 170, 186, 937, 230, 248,
     191, 161, 172, 8730, 402, 8776, 8710, 171, 187, 8230, 160, 192, 195, 213, 338, 339,
     8211, 8212, 8220, 8221, 8216, 8217, 247, 9674, 255, 376, 8260, 8364, 8249, 8250, 64257, 64258,
     8225, 183, 8218, 8222, 8240, 194, 202, 193, 203, 200, 205, 206, 207, 204, 211, 212,
     63743, 210, 218, 219, 217, 305, 710, 732, 175, 728, 729, 730, 184, 733, 731, 711
  >>

\* single-byte code pages: ASCII below 128, the page's table above
SbcsHigh(codec) ==
  CASE codec = "windows1251" -> Windows1251High
    [] codec = "windows1252" -> Windows1252High
    [] codec = "iso88591"    -> [i \in 1..128 |-> 127 + i]
    [] codec = "iso88592"    -> Iso88592High
    [] codec = "iso88595"    -> Iso88595High
    [] codec = "koi8r"       -> Koi8RHigh
    [] codec = "koi8u"       -> Koi8UHigh
    [] codec = "cp866"       -> Cp866High
    [] codec = "cp850"       -> Cp850High
    [] codec = "macintosh"   -> MacintoshHigh
    [] codec = "ascii"       -> [i \in 1..128 |-> ReplacementChar]

SbcsDecode(bytes, codec) ==
  LET high == SbcsHigh(codec)
  IN  [i \in 1..Len(bytes) |-> IF bytes[i] < 128 THEN bytes[i] ELSE high[bytes[i] - 127]]

\* a code point as UTF-16 code units
CodeUnits(cp) ==
  IF cp < 65536 THEN <<cp>>
  ELSE <<55296 + ((cp - 65536) \div 1024), 56320 + ((cp - 65536) % 1024)>>

IsCont(bytes, i, lo, hi) == i <= Len(bytes) /\ bytes[i] >= lo /\ bytes[i] <= hi

\* UTF-8: every maximal ill-formed subsequence becomes one U+FFFD
RECURSIVE Utf8DecodeFrom(_, _)
Utf8DecodeFrom(bytes, i) ==
  IF i > Len(bytes) THEN <<>>
  ELSE LET b == bytes[i]
       IN CASE b < 128 -> <<b>> \o Utf8DecodeFrom(bytes, i + 1)
            [] b >= 194 /\ b <= 223 ->
                 IF IsCont(bytes, i + 1, 128, 191)
                 THEN <<(b - 192) * 64 + (bytes[i + 1] - 128)>> \o Utf8DecodeFrom(bytes, i + 2)
                 ELSE <<ReplacementChar>> \o Utf8DecodeFrom(bytes, i + 1)
            [] b >= 224 /\ b <= 239 ->
                 LET lo == IF b = 224 THEN 160 ELSE 128
                     hi == IF b = 237 THEN 159 ELSE 191
                 IN IF ~IsCont(bytes, i + 1, lo, hi)
                    THEN <<ReplacementChar>> \o Utf8DecodeFrom(bytes, i + 1)
                    ELSE IF ~IsCont(bytes, i + 2, 128, 191)
                    THEN <<ReplacementChar>> \o Utf8DecodeFrom(bytes, i + 2)
                    ELSE <<(b - 224) * 4096 + (bytes[i + 1] - 128) * 64 + (bytes[i + 2] - 128)>>
                         \o Utf8DecodeFrom(bytes, i + 3)
            [] b >= 240 /\ b <= 244 ->
                 LET lo == IF b = 240 THEN 144 ELSE 128
                     hi == IF b = 244 THEN 143 ELSE 191
                 IN IF ~IsCont(bytes, i + 1, lo, hi)
                    THEN <<ReplacementChar>> \o Utf8DecodeFrom(bytes, i + 1)
                    ELSE IF ~IsCont(bytes, i + 2, 128, 191)
                    THEN <<ReplacementChar>> \o Utf8DecodeFrom(bytes, i + 2)
                    ELSE IF ~IsCont(bytes, i + 3, 128, 191)
                    THEN <<ReplacementChar>> \o Utf8DecodeFrom(bytes, i + 3)
                    ELSE CodeUnits((b - 240) * 262144 + (bytes[i + 1] - 128) * 4096
                                   + (bytes[i + 2] - 128) * 64 + (bytes[i + 3] - 128))
                         \o Utf8DecodeFrom(bytes, i + 4)
            [] OTHER -> <<ReplacementChar>> \o Utf8DecodeFrom(bytes, i + 1)

Utf8Decode(bytes) == Utf8DecodeFrom(bytes, 1)

\* UTF-16: two bytes per code unit, an odd trailing byte is dropped
Utf16Decode(bytes, bigEndian) ==
  [k \in 1..(Len(bytes) \div 2) |->
     IF bigEndian THEN bytes[2 * k - 1] * 256 + bytes[2 * k]
                  ELSE bytes[2 * k] * 256 + bytes[2 * k - 1]]

\* UTF-32: four bytes per code point, values above U+10FFFF become U+FFFD,
\* trailing bytes short of four are dropped
RECURSIVE Utf32DecodeFrom(_, _, _)
Utf32DecodeFrom(bytes, i, bigEndian) ==
  IF i + 3 > Len(bytes) THEN <<>>
  ELSE LET top  == IF bigEndian THEN bytes[i] ELSE bytes[i + 3]
           low3 == IF bigEndian
                   THEN (bytes[i + 1] * 256 + bytes[i + 2]) * 256 + bytes[i + 3]
                   ELSE (bytes[i + 2] * 256 + bytes[i + 1]) * 256 + bytes[i]
       IN CodeUnits(IF top > 0 \/ low3 > 1114111 THEN ReplacementChar ELSE low3)
          \o Utf32DecodeFrom(bytes, i + 4, bigEndian)

\* the Unicode codecs strip one leading byte-order mark from the decoded text
StripBOM(text) ==
  IF Len(text) > 0 /\ text[1] = BomChar THEN Tail(text) ELSE text

\* the string iconv.decode returns for a recognised encoding
DecodeText(bytes, encoding) ==
  LET codec == CodecOf(encoding)
  IN CASE codec = "utf8"    -> StripBOM(Utf8Decode(bytes))
       [] codec = "utf16le" -> StripBOM(Utf16Decode(bytes, FALSE))
       [] codec = "utf16be" -> StripBOM(Utf16Decode(bytes, TRUE))
       [] codec = "utf32le" -> StripBOM(Utf32DecodeFrom(bytes, 1, FALSE))
       [] codec = "utf32be" -> StripBOM(Utf32DecodeFrom(bytes, 1, TRUE))
       [] OTHER             -> SbcsDecode(bytes, codec)

\* Buffer.from(decodedText, 'utf8') (line 401): a surrogate pair is one
\* four-byte sequence, a lone surrogate is written as U+FFFD
RECURSIVE Utf8Encode(_)
Utf8Encode(text) ==
  IF Len(text) = 0 THEN <<>>
  ELSE LET u == text[1]
           pair == /\ u >= 55296 /\ u <= 56319 /\ Len(text) >= 2
                   /\ text[2] >= 56320 /\ text[2] <= 57343
           cp == IF pair THEN 65536 + (u - 55296) * 1024 + (text[2] - 56320)
                 ELSE IF u >= 55296 /\ u <= 57343 THEN ReplacementChar
                 ELSE u
           out == IF cp < 128 THEN <<cp>>
                  ELSE IF cp < 2048 THEN <<192 + (cp \div 64), 128 + (cp % 64)>>
                  ELSE IF cp < 65536
                  THEN <<224 + (cp \div 4096), 128 + ((cp \div 64) % 64), 128 + (cp % 64)>>
                  ELSE <<240 + (cp \div 262144), 128 + ((cp \div 4096) % 64),
                         128 + ((cp \div 64) % 64), 128 + (cp % 64)>>
       IN out \o Utf8Encode(SubSeq(text, IF pair THEN 3 ELSE 2, Len(text)))

-----------------------------------------------------------------------------
(* The scoring heuristic (lines 340-368).                                  *)

\* decoded.toUpperCase(): ASCII letters, and the few non-ASCII characters
\* whose upper-case form contains ASCII letters; every other character keeps
\* a non-ASCII form, which no keyword can match
UpperOf(u) ==
  CASE u >= 97 /\ u <= 122 -> <<u - 32>>
    [] u = 223   -> <<83, 83>>
    [] u = 305   -> <<73>>
    [] u = 329   -> <<700, 78>>
    [] u = 383   -> <<83>>
    [] u = 496   -> <<74, 780>>
    [] u = 7830  -> <<72, 817>>
    [] u = 7831  -> <<84, 776>>
    [] u = 7832  -> <<87, 778>>
    [] u = 7833  -> <<89, 778>>
    [] u = 7834  -> <<65, 702>>
    [] u = 64256 -> <<70, 70>>
    [] u = 64257 -> <<70, 73>>
    [] u = 64258 -> <<70, 76>>
    [] u = 64259 -> <<70, 70, 73>>
    [] u = 64260 -> <<70, 70, 76>>
    [] u = 64261 -> <<83, 84>>
    [] u = 64262 -> <<83, 84>>
    [] OTHER     -> <<u>>

RECURSIVE ToUpperCase(_)
ToUpperCase(text) ==
  IF Len(text) = 0 THEN <<>> ELSE UpperOf(text[1]) \o ToUpperCase(Tail(text))

\* const sqlKeywords (line 354)
sqlKeywords ==
  << Codes(<<"S","E","L","E","C","T">>), Codes(<<"I","N","S","E","R","T">>),
     Codes(<<"U","P","D","A","T","E">>), Codes(<<"D","E","L","E","T","E">>),
     Codes(<<"C","R","E","A","T","E">>), Codes(<<"D","R","O","P">>),
     Codes(<<"A","L","T","E","R">>),     Codes(<<"T","A","B","L","E">>),
     Codes(<<"F","R","O","M">>),         Codes(<<"W","H","E","R","E">>) >>

\* the characters /[\x00-\x1F\x7F-\x9F]/g removes (line 360)
ControlChars == (0..31) \cup (127..159)

\* the characters /[;(),'"]/g matches (line 366): ; ( ) , ' "
sqlChars == {59, 40, 41, 44, 39, 34}

\* the reduce of lines 355-357, from keyword k on
RECURSIVE KeywordCountFrom(_, _)
KeywordCountFrom(upper, k) ==
  IF k > Len(sqlKeywords) THEN 0
  ELSE (IF Includes(upper, sqlKeywords[k]) THEN 1 ELSE 0) + KeywordCountFrom(upper, k + 1)

\* printableRatio > 0.8 (lines 361-362); the division 0/0 of an empty text is
\* NaN, which compares false
RatioAboveThreshold(printableChars, length) ==
  length > 0 /\ 5 * printableChars > 4 * length

\* Score without the cap of line 368
ScoreUncapped(decoded) ==
  LET replacementCharCount == CountIn(decoded, {ReplacementChar})
      s1 == IF replacementCharCount = 0 THEN 100 ELSE 0 - replacementCharCount * 10
      s2 == IF Len(decoded) > 0 THEN s1 + 50 ELSE s1
      s3 == s2 + KeywordCountFrom(ToUpperCase(decoded), 1) * 5
      printableChars == Len(decoded) - CountIn(decoded, ControlChars)
      s4 == IF RatioAboveThreshold(printableChars, Len(decoded)) THEN s3 + 30 ELSE s3
  IN  s4 + CountIn(decoded, sqlChars)

Score(decoded) ==
  LET replacementCharCount == CountIn(decoded, {ReplacementChar})
      s1 == IF replacementCharCount = 0 THEN 100 ELSE 0 - replacementCharCount * 10
      s2 == IF Len(decoded) > 0 THEN s1 + 50 ELSE s1
      sqlKeywordCount == KeywordCountFrom(ToUpperCase(decoded), 1)
      s3 == s2 + sqlKeywordCount * 5
      printableChars == Len(decoded) - CountIn(decoded, ControlChars)
      s4 == IF RatioAboveThreshold(printableChars, Len(decoded)) THEN s3 + 30 ELSE s3
      sqlCharCount == CountIn(decoded, sqlChars)
  IN  s4 + Min(sqlCharCount, 20)

\* UpdateBest comparing with 0 instead of the best score so far
UpdateBestAnyPositive(cur, encoding, score) ==
  IF score > 0 THEN [encoding |-> encoding, score |-> score] ELSE cur

\* UpdateBest with the comparison inverted
UpdateBestInverted(cur, encoding, score) ==
  IF score < cur.score THEN [encoding |-> encoding, score |-> score] ELSE cur

\* UpdateBest comparing with >= instead of >
UpdateBestOnTie(cur, encoding, score) ==
  IF score >= cur.score THEN [encoding |-> encoding, score |-> score] ELSE cur

\* if (score > bestScore) { bestScore = score; bestEncoding = encoding; }
\* (lines 377-380)
UpdateBest(cur, encoding, score) ==
  IF score > cur.score THEN [encoding |-> encoding, score |-> score] ELSE cur

-----------------------------------------------------------------------------
(* Request data.  An optional field is [def, val]; val is meaningful only  *)
(* when def holds.                                                         *)

Absent(empty) == [def |-> FALSE, val |-> empty]
Given(v) == [def |-> TRUE, val |-> v]

\* !x for an optional string: undefined or the empty string
Falsy(x, empty) == ~x.def \/ x.val = empty

SqlExt == <<".", "s", "q", "l">>

\* the three checks of lines 296-304: <<>> when the request passes, else the
\* HttpsError thrown
ValidationError(data) ==
  IF Falsy(data.fileName, <<>>)
  THEN <<[https |-> TRUE, code |-> "invalid-argument", message |-> "File name is required"]>>
  ELSE IF Falsy(data.fileContent, <<>>)
  THEN <<[https |-> TRUE, code |-> "invalid-argument", message |-> "File content is required"]>>
  ELSE IF ~EndsWith(data.fileName.val, SqlExt)
  THEN <<[https |-> TRUE, code |-> "invalid-argument", message |-> "File must have .sql extension"]>>
  ELSE <<>>

\* NeedsDetection ignoring the hint
NeedsDetectionAlways(hint) == TRUE

\* if (!detectedEncoding) (line 317)
NeedsDetection(hint) == Falsy(hint, "")

\* Rethrown wrapping every error, HttpsError included
RethrownWrapped(error) ==
  [kind |-> "error", code |-> "internal",
   message |-> <<"Failed to convert file to UTF-8: ", error.message>>]

\* the error leaving the catch block (lines 426-430): an HttpsError as it is,
\* anything else wrapped as "internal"
Rethrown(error) ==
  IF error.https
  THEN [kind |-> "error", code |-> error.code, message |-> <<error.message>>]
  ELSE [kind |-> "error", code |-> "internal",
        message |-> <<"Failed to convert file to UTF-8: ", error.message>>]

\* the object returned at lines 410-417
Result(fileName, outName, decodedText, encoding) ==
  [kind |-> "result",
   success |-> TRUE,
   originalFileName |-> fileName,
   convertedFileName |-> outName,
   convertedContent |-> Base64Encode(Utf8Encode(decodedText)),
   sourceEncoding |-> encoding,
   message |-> <<"Successfully converted ", fileName, " from ", encoding, " to UTF-8">>]

-----------------------------------------------------------------------------
(* The requests explored.                                                  *)

ContentChars == {"C", "g", "Q", "/"}

FreeContents == SeqsUpTo(ContentChars, MaxContentLen)

\* base64 of: two newlines; "a\nb\n"; a lone UTF-8 byte-order mark; "FROM;";
\* "DROP TABLE"; "FROMfrom"; "é" in UTF-8; byte 0x98; eight and nine bytes
\* 0xFF; twenty-one semicolons; "SELECT * FROM t;"; 0xF5 "NSERT"; padding only
SampleContents ==
  { <<"C","g","o","=">>,
    <<"Y","Q","p","i","C","g","=","=">>,
    <<"7","7","u","/">>,
    <<"R","l","J","P","T","T","s","=">>,
    <<"R","F","J","P","U","C","B","U","Q","U","J","M","R","Q","=","=">>,
    <<"R","l","J","P","T","W","Z","y","b","2","0","=">>,
    <<"w","6","k","=">>,
    <<"m","A","=","=">>,
    Rep(<<"/">>, 10) \o <<"8","=">>,
    Rep(<<"/">>, 12),
    Rep(<<"O","z","s","7">>, 7),
    <<"U","0","V","M","R","U","N","U","I","C","o","g","R","l","J","P","T","S","B","0","O","w","=","=">>,
    <<"9","U","5","T","R","V","J","U">>,
    <<"=">> }

Contents ==
  {Absent(<<>>)} \cup {Given(c) : c \in FreeContents \cup SampleContents}

FewContents == {Given(<<"Q","Q","=","=">>), Given(<<"C","g","o","=">>)}

StemChars == {"a", ".", "/"}

Suffixes == {SqlExt, <<>>, <<".", "t", "x", "t">>}

Names ==
  {Absent(<<>>)}
    \cup {Given(stem \o suffix) : stem \in SeqsUpTo(StemChars, MaxStemLen), suffix \in Suffixes}

FewNames == {Given(<<"a">> \o SqlExt)}

Hints == {Absent(""), Given(""), Given("latin1"), Given("cp1251"), Given("utf-32be"), Given("x-unknown")}

FewHints == {Absent(""), Given("latin1")}

Requests ==
  [fileName : FewNames, fileContent : Contents, sourceEncoding : FewHints]
    \cup [fileName : Names, fileContent : FewContents, sourceEncoding : FewHints]
    \cup [fileName : FewNames, fileContent : FewContents, sourceEncoding : Hints]

-----------------------------------------------------------------------------
(* The handler.                                                            *)

NoRequest == [fileName |-> Absent(<<>>), fileContent |-> Absent(<<>>), sourceEncoding |-> Absent("")]

\* the page as first rendered (the useState initial values, lines 16-20)
ClientIdle ==
  /\ file = <<>>
  /\ isConverting = FALSE
  /\ result = <<>>
  /\ uiError = ""
  /\ isDragOver = FALSE
  /\ call = <<>>
  /\ downloaded = <<>>

Init ==
  /\ pc = "idle"
  /\ request = NoRequest
  /\ iconvHasUtf32 \in BOOLEAN
  /\ convertedFileName = <<>>
  /\ buffer = <<>>
  /\ detectedEncoding = Absent("")
  /\ best = <<>>
  /\ idx = 0
  /\ attempts = <<>>
  /\ thrown = <<>>
  /\ response = <<>>
  /\ ClientIdle

\* the callable is invoked with request.data (lines 291-294)
Receive ==
  /\ pc = "idle"
  /\ \E data \in Requests : request' = data
  /\ pc' = "validate"
  /\ UNCHANGED clientVars
  /\ UNCHANGED <<iconvHasUtf32, convertedFileName, buffer, detectedEncoding,
                 best, idx, attempts, thrown, response>>

\* a validation check throws (lines 296-304)
Reject ==
  /\ pc = "validate"
  /\ ValidationError(request) # <<>>
  /\ thrown' = ValidationError(request)
  /\ pc' = "catch"
  /\ UNCHANGED clientVars
  /\ UNCHANGED <<request, iconvHasUtf32, convertedFileName, buffer, detectedEncoding,
                 best, idx, attempts, response>>

\* validation passes: output name, buffer, hint (lines 305-317); without a
\* hint the detection loop is set up (lines 319-335)
Start ==
  /\ pc = "validate"
  /\ ValidationError(request) = <<>>
  /\ convertedFileName' = OutputName(request.fileName.val)
  /\ buffer' = Base64Decode(request.fileContent.val)
  /\ detectedEncoding' = request.sourceEncoding
  /\ IF NeedsDetection(request.sourceEncoding)
     THEN /\ best' = <<[encoding |-> "utf8", score |-> 0]>>
          /\ idx' = 1
          /\ pc' = "loop"
     ELSE /\ pc' = "decode"
          /\ UNCHANGED <<best, idx>>
  /\ UNCHANGED clientVars
  /\ UNCHANGED <<request, iconvHasUtf32, attempts, thrown, response>>

\* one loop iteration whose decode succeeds (lines 336-381)
AttemptScored ==
  /\ pc = "loop"
  /\ idx <= Len(encodingsToTry)
  /\ LET encoding == encodingsToTry[idx]
     IN /\ ~DecodeThrows(encoding, iconvHasUtf32)
        /\ LET decoded == DecodeText(buffer, encoding)
               score == Score(decoded)
           IN /\ attempts' = Append(attempts, [encoding |-> encoding, threw |-> FALSE,
                                               decoded |-> decoded, score |-> score])
              /\ best' = <<UpdateBest(best[1], encoding, score)>>
  /\ idx' = idx + 1
  /\ UNCHANGED clientVars
  /\ UNCHANGED <<pc, request, iconvHasUtf32, convertedFileName, buffer, detectedEncoding,
                 thrown, response>>

\* AttemptSkipped recording the failed candidate as the best one
AttemptSkippedTakingBest ==
  /\ pc = "loop"
  /\ idx <= Len(encodingsToTry)
  /\ DecodeThrows(encodingsToTry[idx], iconvHasUtf32)
  /\ attempts' = Append(attempts, [encoding |-> encodingsToTry[idx], threw |-> TRUE,
                                   decoded |-> <<>>, score |-> 0])
  /\ best' = <<[encoding |-> encodingsToTry[idx], score |-> best[1].score]>>
  /\ idx' = idx + 1
  /\ UNCHANGED clientVars
  /\ UNCHANGED <<pc, request, iconvHasUtf32, convertedFileName, buffer, detectedEncoding,
                 thrown, response>>

\* AttemptSkipped retrying the candidate instead of moving on
AttemptSkippedRetrying ==
  /\ pc = "loop"
  /\ idx <= Len(encodingsToTry)
  /\ DecodeThrows(encodingsToTry[idx], iconvHasUtf32)
  /\ Len(attempts) < 2 * Len(encodingsToTry)
  /\ attempts' = Append(attempts, [encoding |-> encodingsToTry[idx], threw |-> TRUE,
                                   decoded |-> <<>>, score |-> 0])
  /\ UNCHANGED clientVars
  /\ UNCHANGED <<pc, request, iconvHasUtf32, convertedFileName, buffer, detectedEncoding,
                 best, idx, thrown, response>>

\* AttemptSkipped letting the decode error escape the loop
AttemptSkippedAborting ==
  /\ pc = "loop"
  /\ idx <= Len(encodingsToTry)
  /\ DecodeThrows(encodingsToTry[idx], iconvHasUtf32)
  /\ attempts' = Append(attempts, [encoding |-> encodingsToTry[idx], threw |-> TRUE,
                                   decoded |-> <<>>, score |-> 0])
  /\ thrown' = <<[https |-> FALSE, code |-> "", message |-> "Encoding not recognized"]>>
  /\ pc' = "catch"
  /\ UNCHANGED clientVars
  /\ UNCHANGED <<request, iconvHasUtf32, convertedFileName, buffer, detectedEncoding,
                 best, idx, response>>

\* one loop iteration whose decode throws (lines 336-338, 382-385)
AttemptSkipped ==
  /\ pc = "loop"
  /\ idx <= Len(encodingsToTry)
  /\ DecodeThrows(encodingsToTry[idx], iconvHasUtf32)
  /\ attempts' = Append(attempts, [encoding |-> encodingsToTry[idx], threw |-> TRUE,
                                   decoded |-> <<>>, score |-> 0])
  /\ idx' = idx + 1
  /\ UNCHANGED clientVars
  /\ UNCHANGED <<pc, request, iconvHasUtf32, convertedFileName, buffer, detectedEncoding,
                 best, thrown, response>>

\* the loop is over (line 387)
FinishDetection ==
  /\ pc = "loop"
  /\ idx > Len(encodingsToTry)
  /\ detectedEncoding' = Given(best[1].encoding)
  /\ pc' = "decode"
  /\ UNCHANGED clientVars
  /\ UNCHANGED <<request, iconvHasUtf32, convertedFileName, buffer, best, idx,
                 attempts, thrown, response>>

\* the final decode succeeds and the result is returned (lines 399-417)
Convert ==
  /\ pc = "decode"
  /\ ~DecodeThrows(detectedEncoding.val, iconvHasUtf32)
  /\ response' = <<Result(request.fileName.val, convertedFileName,
                          DecodeText(buffer, detectedEncoding.val), detectedEncoding.val)>>
  /\ pc' = "done"
  /\ UNCHANGED clientVars
  /\ UNCHANGED <<request, iconvHasUtf32, convertedFileName, buffer, detectedEncoding,
                 best, idx, attempts, thrown>>

\* ConvertThrows falling back to auto-detection instead of failing
ConvertThrowsFallingBack ==
  /\ pc = "decode"
  /\ DecodeThrows(detectedEncoding.val, iconvHasUtf32)
  /\ best = <<>>
  /\ best' = <<[encoding |-> "utf8", score |-> 0]>>
  /\ idx' = 1
  /\ pc' = "loop"
  /\ UNCHANGED clientVars
  /\ UNCHANGED <<request, iconvHasUtf32, convertedFileName, buffer, detectedEncoding,
                 attempts, thrown, response>>

\* the final decode throws (line 399)
ConvertThrows ==
  /\ pc = "decode"
  /\ DecodeThrows(detectedEncoding.val, iconvHasUtf32)
  /\ thrown' = <<[https |-> FALSE, code |-> "", message |-> "Encoding not recognized"]>>
  /\ pc' = "catch"
  /\ UNCHANGED clientVars
  /\ UNCHANGED <<request, iconvHasUtf32, convertedFileName, buffer, detectedEncoding,
                 best, idx, attempts, response>>

\* the catch block (lines 419-431)
Catch ==
  /\ pc = "catch"
  /\ response' = <<Rethrown(thrown[1])>>
  /\ pc' = "done"
  /\ UNCHANGED clientVars
  /\ UNCHANGED <<request, iconvHasUtf32, convertedFileName, buffer, detectedEncoding,
                 best, idx, attempts, thrown>>

Next ==
  \/ Receive
  \/ Reject
  \/ Start
  \/ AttemptScored
  \/ AttemptSkipped
  \/ FinishDetection
  \/ Convert
  \/ ConvertThrows
  \/ Catch

Spec == Init /\ [][Next]_vars

-----------------------------------------------------------------------------
(* The page (App).  Its handlers run one at a time; convertFile is async   *)
(* and is suspended at its two awaits, where other handlers may run.  The  *)
(* callable is seen from outside: a call resolves with the object of lines *)
(* 410-417 of the function for the file that was sent, or rejects.         *)

\* the files the user has at hand
Files ==
  { [name |-> <<"a">> \o SqlExt], [name |-> <<"b">> \o SqlExt],
    [name |-> <<"a", ".", "t", "x", "t">>] }

\* the texts a conversion may produce: none, or "a"
ConvertedTexts == {<<>>, <<97>>}

\* what the catch of line 83 may receive: an Error with its message, or another value
CaughtErrors ==
  { [isError |-> TRUE, message |-> "Failed to convert file to UTF-8"],
    [isError |-> FALSE, message |-> ""] }

\* handleFileSelect (lines 22-30), on the state it sets
handleFileSelect(selectedFile) ==
  IF EndsWith(selectedFile.name, SqlExt)
  THEN /\ file' = <<selectedFile>>
       /\ uiError' = ""
       /\ result' = <<>>
  ELSE /\ uiError' = "Please select a .sql file"
       /\ UNCHANGED <<file, result>>

\* lines 32-35
handleDragOver ==
  /\ isDragOver' = TRUE
  /\ UNCHANGED <<file, isConverting, result, uiError, call, downloaded>>
  /\ UNCHANGED serverVars

\* lines 37-40
handleDragLeave ==
  /\ isDragOver' = FALSE
  /\ UNCHANGED <<file, isConverting, result, uiError, call, downloaded>>
  /\ UNCHANGED serverVars

\* a drop on the upload area, which takes drops at any time (lines 42-50,
\* 140-142); the drop may carry no file
handleDrop ==
  /\ isDragOver' = FALSE
  /\ \/ \E droppedFile \in Files : handleFileSelect(droppedFile)
     \/ UNCHANGED <<file, result, uiError>>
  /\ UNCHANGED <<isConverting, call, downloaded>>
  /\ UNCHANGED serverVars

\* a choice in the file picker, which is rendered while no file is selected
\* (lines 52-57, 144, 173-179)
handleFileInput ==
  /\ file = <<>>
  /\ \E selectedFile \in Files : handleFileSelect(selectedFile)
  /\ UNCHANGED <<isConverting, isDragOver, call, downloaded>>
  /\ UNCHANGED serverVars

\* "Choose different file", rendered while a file is selected (lines 144, 155-160)
ChooseDifferentFile ==
  /\ file # <<>>
  /\ file' = <<>>
  /\ UNCHANGED <<isConverting, result, uiError, isDragOver, call, downloaded>>
  /\ UNCHANGED serverVars

\* the Convert button, rendered while a file is selected and disabled while
\* converting (lines 191-195): convertFile up to its first await (lines 59-68)
convertFile ==
  /\ file # <<>>
  /\ ~isConverting
  /\ isConverting' = TRUE
  /\ uiError' = ""
  /\ result' = <<>>
  /\ call' = <<[file |-> file[1], at |-> "arrayBuffer"]>>
  /\ UNCHANGED <<file, isDragOver, downloaded>>
  /\ UNCHANGED serverVars

\* the file is read and the callable is invoked with the captured file
\* (lines 68-80)
convertFileSends ==
  /\ call # <<>>
  /\ call[1].at = "arrayBuffer"
  /\ call' = <<[file |-> call[1].file, at |-> "convertToUtf8"]>>
  /\ UNCHANGED <<file, isConverting, result, uiError, isDragOver, downloaded>>
  /\ UNCHANGED serverVars

\* the call resolves (lines 76-82, 86-88)
convertFileResolves ==
  /\ call # <<>>
  /\ call[1].at = "convertToUtf8"
  /\ \E text \in ConvertedTexts :
       result' = <<Result(call[1].file.name, OutputName(call[1].file.name), text, "utf8")>>
  /\ isConverting' = FALSE
  /\ call' = <<>>
  /\ UNCHANGED <<file, uiError, isDragOver, downloaded>>
  /\ UNCHANGED serverVars

\* an await rejects (lines 83-88)
convertFileRejects ==
  /\ call # <<>>
  /\ \E err \in CaughtErrors :
       uiError' = IF err.isError THEN err.message ELSE "Conversion failed"
  /\ isConverting' = FALSE
  /\ call' = <<>>
  /\ UNCHANGED <<file, result, isDragOver, downloaded>>
  /\ UNCHANGED serverVars

\* the Download button, rendered while a result is held (lines 91-117, 227,
\* 251-257); without content the handler returns at line 92
downloadConvertedFile ==
  /\ result # <<>>
  /\ result[1].convertedContent # <<>>
  /\ \/ /\ downloaded' = <<[name |-> result[1].convertedFileName, selected |-> file]>>
        /\ UNCHANGED uiError
     \/ /\ uiError' = "Failed to download converted file"
        /\ UNCHANGED downloaded
  /\ UNCHANGED <<file, isConverting, result, isDragOver, call>>
  /\ UNCHANGED serverVars

ClientNext ==
  \/ handleDragOver
  \/ handleDragLeave
  \/ handleDrop
  \/ handleFileInput
  \/ ChooseDifferentFile
  \/ convertFile
  \/ convertFileSends
  \/ convertFileResolves
  \/ convertFileRejects
  \/ downloadConvertedFile

ClientSpec == Init /\ [][ClientNext]_vars

-----------------------------------------------------------------------------
(* Vocabulary of the properties.                                           *)

Started == pc \notin {"idle", "validate"}

Finished == pc = "done"

Returned == Finished /\ response[1].kind = "result"

Failed == Finished /\ response[1].kind = "error"

\* a hint the handler honours (a non-empty sourceEncoding)
HintSupplied == request.sourceEncoding.def /\ request.sourceEncoding.val # ""

\* the request names a file, carries content, and the name ends in ".sql"
WellFormed ==
  /\ request.fileName.def /\ request.fileName.val # <<>>
  /\ request.fileContent.def /\ request.fileContent.val # <<>>
  /\ EndsWith(request.fileName.val, SqlExt)

\* the bytes the request content stands for
RequestBytes == Base64Decode(request.fileContent.val)

\* attempts that produced a decoded text
Scored == {i \in 1..Len(attempts) : ~attempts[i].threw}

DetectionOver == best # <<>> /\ Len(attempts) = Len(encodingsToTry)

-----------------------------------------------------------------------------
(* C1: with a source-encoding hint the scoring loop is never entered (no   *)
(* candidate is decoded or scored, the best-so-far pair is never created), *)
(* and a returned result carries the buffer decoded with the hinted        *)
(* encoding and reports that encoding.                                     *)
C1_HintSkipsDetection ==
  (pc # "idle" /\ HintSupplied) =>
    /\ pc # "loop"
    /\ best = <<>>
    /\ attempts = <<>>
    /\ idx = 0
    /\ Returned =>
         /\ response[1].sourceEncoding = request.sourceEncoding.val
         /\ response[1].convertedContent
              = Base64Encode(Utf8Encode(DecodeText(RequestBytes, request.sourceEncoding.val)))

C1_Witness ==
  /\ Returned
  /\ HintSupplied
  /\ request.sourceEncoding.val = "cp1251"
  /\ buffer # <<>>

(* C2: ties are broken by catalog order: the chosen encoding is never      *)
(* a candidate that some earlier, successfully decoded candidate equalled  *)
(* or beat; of two candidates with identical decoded text the later one is *)
(* never chosen; the reported encoding is the chosen one.                  *)
C2_TieBreakByCatalogOrder ==
  DetectionOver =>
    /\ \A i \in Scored :
         attempts[i].encoding = best[1].encoding =>
           \A j \in Scored : j < i => attempts[j].score < attempts[i].score
    /\ \A i \in Scored : \A j \in Scored :
         (i < j /\ attempts[i].decoded = attempts[j].decoded) =>
           best[1].encoding # attempts[j].encoding
    /\ Returned => response[1].sourceEncoding = best[1].encoding

C2_Witness ==
  /\ Returned
  /\ DetectionOver
  /\ buffer # <<>>
  /\ response[1].sourceEncoding = "utf8"
  /\ ~attempts[Len(encodingsToTry)].threw
  /\ attempts[Len(encodingsToTry)].encoding = "ascii"
  /\ attempts[Len(encodingsToTry)].decoded = attempts[1].decoded
  /\ attempts[Len(encodingsToTry)].score = best[1].score

(* C3: once detection is over, the chosen encoding is one whose decode in  *)
(* the loop did not throw; a candidate whose decode threw carries no score *)
(* and is never the best-so-far encoding.                                  *)
C3_ChosenDecoded ==
  /\ DetectionOver => \E i \in Scored : attempts[i].encoding = best[1].encoding
  /\ \A i \in 1..Len(attempts) :
       attempts[i].threw =>
         (attempts[i].decoded = <<>> /\ best[1].encoding # attempts[i].encoding)
  /\ (Started /\ ~HintSupplied /\ detectedEncoding.def /\ detectedEncoding.val # "") =>
       \E i \in Scored : attempts[i].encoding = detectedEncoding.val

C3_Witness ==
  /\ Returned
  /\ DetectionOver
  /\ buffer # <<>>
  /\ \E i \in 1..Len(attempts) : attempts[i].threw

(* C4 (as claimed): when the buffer obtained from the request content is   *)
(* empty or absent, the call fails with invalid-argument and no decode is  *)
(* attempted.                                                              *)
C4_EmptyBufferRejected ==
  (Started /\ request.fileName.def /\ EndsWith(request.fileName.val, SqlExt)
     /\ (~request.fileContent.def \/ RequestBytes = <<>>)) =>
    /\ pc \notin {"loop", "decode"}
    /\ attempts = <<>>
    /\ Finished => (response[1].kind = "error" /\ response[1].code = "invalid-argument")

\* common whitespace: tab, line feed, carriage return
Whitespace == {9, 10, 13}

\* the buffer is non-empty, well-formed UTF-8 that holds some text besides a
\* byte-order mark and no control character other than common whitespace
PlainUtf8(bytes) ==
  LET text == Utf8Decode(bytes)
  IN /\ bytes # <<>>
     /\ StripBOM(text) # <<>>
     /\ \A i \in 1..Len(text) :
          /\ text[i] # ReplacementChar
          /\ text[i] \in ControlChars => text[i] \in Whitespace

(* C5 (as claimed): for a non-empty buffer of valid UTF-8 text without     *)
(* control characters outside common whitespace, auto-detection returns    *)
(* "utf8" with a winning score of at least 150, and no later candidate     *)
(* scores strictly higher.                                                 *)
C5_ValidUtf8DetectedAsUtf8 ==
  (Returned /\ DetectionOver /\ PlainUtf8(buffer)) =>
    /\ response[1].sourceEncoding = "utf8"
    /\ best[1].score >= 150
    /\ \A i \in Scored : attempts[i].score <= attempts[1].score

\* the name holds no directory separator
PlainName(name) == \A i \in 1..Len(name) : name[i] # "/"

\* position of the dot that starts the final extension, 0 when the name has
\* none (a dot that opens the name starts no extension)
ExtensionDot(name) ==
  LET dots == {i \in 2..Len(name) : name[i] = "."}
  IN IF dots = {} THEN 0 ELSE CHOOSE i \in dots : \A j \in dots : j <= i

(* C6: the derived name is the file name with "-utf8" inserted immediately *)
(* before its final extension (the last dot decides, not the first); a     *)
(* name without an extension gets "-utf8" appended, with no trailing dot.  *)
C6_OutputNaming ==
  (Started /\ WellFormed /\ PlainName(request.fileName.val)) =>
    LET name == request.fileName.val
        dot  == ExtensionDot(name)
    IN /\ convertedFileName =
            IF dot = 0 THEN name \o Utf8Suffix
            ELSE SubSeq(name, 1, dot - 1) \o Utf8Suffix \o SubSeq(name, dot, Len(name))
       /\ Returned => response[1].convertedFileName = convertedFileName

C6_Witness ==
  /\ Returned
  /\ request.fileName.val = <<"a", ".", "a", ".", "s", "q", "l">>
  /\ response[1].convertedFileName = <<"a", ".", "a", "-", "u", "t", "f", "8", ".", "s", "q", "l">>

(* C7: a request without a file name, without content, or whose file name  *)
(* does not end in ".sql" ends in an invalid-argument error that keeps its *)
(* kind, and nothing is decoded, detected or built for it.                 *)
C7_InvalidRequestRejected ==
  (Started /\ ~WellFormed) =>
    /\ pc \in {"catch", "done"}
    /\ convertedFileName = <<>>
    /\ buffer = <<>>
    /\ best = <<>>
    /\ attempts = <<>>
    /\ ~detectedEncoding.def
    /\ Finished => (response[1].kind = "error" /\ response[1].code = "invalid-argument")

C7_Witness ==
  /\ Failed
  /\ request.fileName.def
  /\ request.fileContent.def /\ request.fileContent.val # <<>>
  /\ EndsWith(request.fileName.val, <<".", "t", "x", "t">>)
  /\ response[1].code = "invalid-argument"

(* C8: when a hint is supplied and the codec does not recognise it, the    *)
(* call ends in an error: no result is returned, the detection loop does   *)
(* not run as a fallback and no other encoding is substituted.             *)
C8_BadHintIsFatal ==
  (Started /\ WellFormed /\ HintSupplied
     /\ DecodeThrows(request.sourceEncoding.val, iconvHasUtf32)) =>
    /\ pc \in {"decode", "catch", "done"}
    /\ best = <<>>
    /\ attempts = <<>>
    /\ detectedEncoding = request.sourceEncoding
    /\ Finished => response[1].kind = "error"

C8_Witness ==
  /\ Failed
  /\ WellFormed
  /\ HintSupplied
  /\ request.sourceEncoding.val = "x-unknown"
  /\ response[1].code = "internal"

\* the attempts made so far are the first candidates of the catalog, each
\* once, in catalog order; at most one outcome exists, and only when done
SinglePass ==
  /\ Len(attempts) <= Len(encodingsToTry)
  /\ \A i \in 1..Len(attempts) : attempts[i].encoding = encodingsToTry[i]
  /\ Len(response) <= 1
  /\ Finished <=> Len(response) = 1
  /\ Finished => response[1].kind \in {"result", "error"}

\* an upper bound on the steps the call still takes
StepsLeft ==
  CASE pc = "idle"     -> Len(encodingsToTry) + 5
    [] pc = "validate" -> Len(encodingsToTry) + 4
    [] pc = "loop"     -> (Len(encodingsToTry) - Len(attempts)) + 3
    [] pc = "decode"   -> 2
    [] pc = "catch"    -> 1
    [] pc = "done"     -> 0

\* the call is not stuck: the guard of some step of the handler holds
CanStep ==
  \/ pc \in {"idle", "validate"}
  \/ pc = "loop" /\ best # <<>> /\ idx = Len(attempts) + 1
  \/ pc = "decode" /\ detectedEncoding.def
  \/ pc = "catch" /\ Len(thrown) = 1

(* C9: every call ends with exactly one outcome, a result or an error,     *)
(* after a single pass that attempts each catalog candidate at most once,  *)
(* in catalog order, with no retry: until the outcome exists a step is     *)
(* always possible, every step lowers the bounded number of steps left,    *)
(* and the outcome, once produced, does not change.                        *)
C9_SinglePassTerminates ==
  /\ []SinglePass
  /\ [](Finished \/ CanStep)
  /\ [][StepsLeft' < StepsLeft /\ (response # <<>> => response' = response)]_vars

C9_Witness ==
  /\ Returned
  /\ DetectionOver
  /\ buffer # <<>>
  /\ \E i \in 1..Len(attempts) : attempts[i].threw
  /\ \E i \in 1..Len(attempts) : ~attempts[i].threw

\* the text upper-cased, character by character
Uppercased(text) == ToUpperCase(text)

\* the keyword occurs in the text, letter case aside
Occurs(keyword, text) ==
  LET up == Uppercased(text)
  IN \E p \in 1..Len(up) :
       /\ p + Len(keyword) - 1 <= Len(up)
       /\ \A j \in 1..Len(keyword) : up[p + j - 1] = keyword[j]

\* the score the heuristic is described to give a decoded text
DescribedScore(text) ==
  LET R        == Cardinality({i \in 1..Len(text) : text[i] = ReplacementChar})
      keywords == Cardinality({k \in 1..Len(sqlKeywords) : Occurs(sqlKeywords[k], text)})
      outside  == Cardinality({i \in 1..Len(text) : text[i] \notin ControlChars})
      marks    == Cardinality({i \in 1..Len(text) : text[i] \in sqlChars})
  IN (IF R = 0 THEN 100 ELSE 0 - 10 * R)
     + (IF text # <<>> THEN 50 ELSE 0)
     + 5 * keywords
     + (IF text # <<>> /\ 10 * outside > 8 * Len(text) THEN 30 ELSE 0)
     + (IF marks < 20 THEN marks ELSE 20)

(* C10: the score of every scored candidate is 100 without U+FFFD, else    *)
(* minus ten per U+FFFD; plus 50 for non-empty text; plus 5 per distinct   *)
(* keyword occurring letter case aside; plus 30 when the text is non-empty *)
(* and more than 0.8 of its characters lie outside the control ranges;     *)
(* plus the number of SQL punctuation characters, at most 20.              *)
C10_ScoreFormula ==
  DetectionOver => \A i \in Scored : attempts[i].score = DescribedScore(attempts[i].decoded)

C10_Witness ==
  /\ Returned
  /\ \E i \in Scored : ReplacementChar \in {attempts[i].decoded[k] : k \in 1..Len(attempts[i].decoded)}
  /\ \E i \in Scored :
       /\ Cardinality({k \in 1..Len(attempts[i].decoded) : attempts[i].decoded[k] \in sqlChars}) > 20
       /\ attempts[i].score = 200

\* the scored attempt of the chosen encoding (catalog names are distinct)
ChosenAttempts == {i \in Scored : attempts[i].encoding = best[1].encoding}

(* C11: once detection is over, the chosen encoding is a successfully      *)
(* decoded candidate whose score is the maximum over all successfully      *)
(* decoded candidates, and the recorded best score is that maximum; this   *)
(* covers the runs in which some candidates score below zero.              *)
C11_ChosenHasMaxScore ==
  DetectionOver =>
    /\ ChosenAttempts # {}
    /\ \A c \in ChosenAttempts :
         /\ attempts[c].score = best[1].score
         /\ \A i \in Scored : attempts[i].score <= attempts[c].score

C11_Witness ==
  /\ Returned
  /\ DetectionOver
  /\ \E i \in Scored : attempts[i].score < 0
  /\ \E i \in Scored : attempts[i].score > 0 /\ attempts[i].score < best[1].score
  /\ response[1].sourceEncoding # "utf8"

\* a step in which a candidate's decode throws
SkipStep ==
  /\ Len(attempts') = Len(attempts) + 1
  /\ attempts'[Len(attempts')].threw

(* C12: a candidate whose decode throws leaves the best-so-far encoding    *)
(* and score as they were and the loop goes on to the next candidate; the  *)
(* final decode of auto-detection is reached only after every catalog      *)
(* candidate was attempted; and a run in which a candidate's decode threw  *)
(* still ends with a result, with no error ever raised for the call.       *)
C12_DecodeFailureContained ==
  /\ [][SkipStep => /\ best' = best
                    /\ pc' = "loop"
                    /\ idx' = idx + 1
                    /\ thrown' = thrown
                    /\ response' = response]_vars
  /\ []((pc \in {"decode", "done"} /\ attempts # <<>>) =>
          /\ Len(attempts) = Len(encodingsToTry)
          /\ \A i \in 1..Len(attempts) : attempts[i].encoding = encodingsToTry[i])
  /\ []((\E i \in 1..Len(attempts) : attempts[i].threw) =>
          /\ thrown = <<>>
          /\ pc # "catch"
          /\ Finished => Returned)

C12_Witness ==
  /\ Returned
  /\ thrown = <<>>
  /\ Len(attempts) = Len(encodingsToTry)
  /\ \E i \in 1..Len(attempts) : \E j \in Scored :
       /\ attempts[i].threw
       /\ i < j
       /\ attempts[j].score > 0
       /\ \E c \in Scored :
            /\ c < i
            /\ c > 1
            /\ response[1].sourceEncoding = attempts[c].encoding
            /\ best[1].score = attempts[c].score

\* the attempt's decoded text contains no U+FFFD
ReplacementFree(i) == CountIn(attempts[i].decoded, {ReplacementChar}) = 0

(* C13: a replacement-free non-empty attempt scores at least 150 and an    *)
(* attempt with one or more U+FFFD scores at most 140; so for a non-empty  *)
(* buffer of which some candidate decodes without U+FFFD, the encoding     *)
(* chosen by auto-detection decodes the buffer without U+FFFD, and so does *)
(* the text that is returned.                                              *)
C13_NoReplacementChosen ==
  /\ \A i \in Scored :
       /\ (ReplacementFree(i) /\ attempts[i].decoded # <<>>) => attempts[i].score >= 150
       /\ ~ReplacementFree(i) => attempts[i].score <= 140
  /\ (DetectionOver /\ buffer # <<>> /\ \E i \in Scored : ReplacementFree(i)) =>
       /\ \A c \in ChosenAttempts : ReplacementFree(c)
       /\ CountIn(DecodeText(buffer, best[1].encoding), {ReplacementChar}) = 0
       /\ best[1].score >= 150

C13_Witness ==
  /\ Returned
  /\ DetectionOver
  /\ buffer # <<>>
  /\ \E i \in Scored : ~ReplacementFree(i) /\ attempts[i].score > 0
  /\ \A c \in ChosenAttempts : ReplacementFree(c)

(* C14 (as claimed): for every request that passes validation and         *)
(* succeeds, the converted file name in the response ends with ".sql" and  *)
(* is the original name with "-utf8" inserted before that final ".sql",    *)
(* also when the name is ".sql" alone or holds directory separators.       *)
C14_SqlNamePreserved ==
  (Returned /\ WellFormed) =>
    LET name == request.fileName.val
        stem == SubSeq(name, 1, Len(name) - Len(SqlExt))
    IN /\ EndsWith(response[1].convertedFileName, SqlExt)
       /\ response[1].convertedFileName = stem \o Utf8Suffix \o SqlExt

(* C15 (as claimed): under every interleaving of file selection, "Choose   *)
(* different file", conversion start and response arrival, a result held   *)
(* while a file is selected was produced from that file, and nothing is    *)
(* downloaded under a name derived from another file than the one selected.*)
C15_ResultOfSelectedFile ==
  /\ (result # <<>> /\ file # <<>>) => result[1].originalFileName = file[1].name
  /\ (downloaded # <<>> /\ downloaded[1].selected # <<>>) =>
       downloaded[1].name = OutputName(downloaded[1].selected[1].name)

=============================================================================
